---- MODULE Spec2Model ----
(***************************************************************************)
(* Model of unveilox-cli (src/main.rs): argument parsing and the lookup of  *)
(* a bundled writing, the TerminalGuard session guard, the cancellation    *)
(* poller, and the two reveal strategies (typewriter_print and tui_reveal) *)
(* run against a terminal device whose commands may fail and an input      *)
(* source that delivers events.                                            *)
(***************************************************************************)
EXTENDS Integers, Sequences, FiniteSets, TLC

\* ------------------------------------------------------------------ bounds
MaxTextLen == 3
MaxQueue == 2
MaxElapsed == 40
MaxCalls == 4
MaxFiles == 2
MaxSpeedArg == 1002

\* ------------------------------------------------------- program constants
U16Max == 65535
RevealRate == 8
AccentAMod == 7
AccentBMod == 5
DEFAULT_SPEED == 25
MIN_SPEED == 1
MAX_SPEED == 1000

\* --------------------------------------------------------------- alphabets
NL == "\n"
Alphabet == {"x", NL}
SeqsUpTo(S, n) == UNION {[1..k -> S] : k \in 0..n}
SampleTexts ==
  { <<"A", "B", NL, "C", "D">>,
    <<"x", "x", "x", "x", "x", "x", "x", "x">>,
    <<NL, "x", "x", "x", "x", "x", "x", "x">> }
Texts == SeqsUpTo(Alphabet, MaxTextLen) \cup SampleTexts

KeyEv(code, ch, ctrl) == [type |-> "Key", code |-> code, ch |-> ch, ctrl |-> ctrl]
ResizeEv == [type |-> "Resize", code |-> "", ch |-> "", ctrl |-> FALSE]
Events ==
  { KeyEv("Esc", "", FALSE), KeyEv("Enter", "", FALSE),
    KeyEv("Char", "q", FALSE), KeyEv("Char", "q", TRUE),
    KeyEv("Char", "c", TRUE), KeyEv("Char", "c", FALSE),
    KeyEv("Char", "x", FALSE), ResizeEv }
\* One event of each class a run tells apart: exit key, other key, not a key.
RunEvents == { KeyEv("Esc", "", FALSE), KeyEv("Char", "c", FALSE), ResizeEv }

Releases == {"Show", "DisableRaw", "LeaveAlt"}
EnterFailures == {"none", "alt", "raw", "hide"}
PollFailures == {"none", "poll", "read"}
Ticks == {0, 4, 8, 16}

Min(a, b) == IF a < b THEN a ELSE b

\* ------------------------------------------------- strings and the CLI input
\* A string is a sequence of one-character strings.
IsSpace(c) == c \in {" ", "\t"}
LowerLetters == <<"a", "b", "e", "h", "i", "l", "p", "s", "t">>
UpperLetters == <<"A", "B", "E", "H", "I", "L", "P", "S", "T">>
to_ascii_lowercase(c) ==
  IF \E i \in DOMAIN UpperLetters : UpperLetters[i] = c
  THEN LowerLetters[CHOOSE i \in DOMAIN UpperLetters : UpperLetters[i] = c]
  ELSE c
to_ascii_uppercase(c) ==
  IF \E i \in DOMAIN LowerLetters : LowerLetters[i] = c
  THEN UpperLetters[CHOOSE i \in DOMAIN LowerLetters : LowerLetters[i] = c]
  ELSE c
to_lowercase(s) == [i \in DOMAIN s |-> to_ascii_lowercase(s[i])]
to_uppercase(s) == [i \in DOMAIN s |-> to_ascii_uppercase(s[i])]
eq_ignore_ascii_case(a, b) ==
  /\ Len(a) = Len(b)
  /\ \A i \in DOMAIN a : to_ascii_lowercase(a[i]) = to_ascii_lowercase(b[i])

RECURSIVE trim_start(_)
trim_start(s) ==
  IF s # << >> /\ IsSpace(Head(s)) THEN trim_start(Tail(s)) ELSE s
RECURSIVE trim_end(_)
trim_end(s) ==
  IF s # << >> /\ IsSpace(s[Len(s)])
  THEN trim_end(SubSeq(s, 1, Len(s) - 1))
  ELSE s
trim(s) == trim_end(trim_start(s))

\* Action::from_str: the trimmed argument is help, list or a writing's name.
from_str(s) ==
  LET trimmed == trim(s) IN
    IF trimmed = << >>
    THEN [ok |-> FALSE, action |-> "none", name |-> << >>]
    ELSE IF eq_ignore_ascii_case(trimmed, <<"h", "e", "l", "p">>)
    THEN [ok |-> TRUE, action |-> "Help", name |-> << >>]
    ELSE IF eq_ignore_ascii_case(trimmed, <<"l", "i", "s", "t">>)
    THEN [ok |-> TRUE, action |-> "List", name |-> << >>]
    ELSE [ok |-> TRUE, action |-> "Show", name |-> trimmed]

parse_action(s) == from_str(s)

\* str::parse::<u64>: an optional + and then one or more decimal digits. The
\* type's upper limit lies beyond every string of MaxDigits digits.
Digits == <<"0", "1", "2", "3", "4", "5", "6", "7", "8", "9">>
IsDigit(c) == \E d \in DOMAIN Digits : Digits[d] = c
DigitVal(c) == (CHOOSE d \in DOMAIN Digits : Digits[d] = c) - 1
RECURSIVE DigitsValue(_)
DigitsValue(ds) ==
  IF ds = << >>
  THEN 0
  ELSE 10 * DigitsValue(SubSeq(ds, 1, Len(ds) - 1)) + DigitVal(ds[Len(ds)])
parse_u64(raw) ==
  LET ds == IF raw # << >> /\ Head(raw) = "+" THEN Tail(raw) ELSE raw IN
    IF ds # << >> /\ \A i \in DOMAIN ds : IsDigit(ds[i])
    THEN [ok |-> TRUE, val |-> DigitsValue(ds)]
    ELSE [ok |-> FALSE, val |-> 0]

\* parse_speed with an exclusive upper end of the range.
parse_speed_exclusive(raw) ==
  LET p == parse_u64(raw) IN
    IF ~p.ok
    THEN [ok |-> FALSE, val |-> 0, err |-> "not a valid positive integer"]
    ELSE IF ~(MIN_SPEED <= p.val /\ p.val < MAX_SPEED)
    THEN [ok |-> FALSE, val |-> 0, err |-> "speed must be between"]
    ELSE [ok |-> TRUE, val |-> p.val, err |-> "none"]

parse_speed(raw) ==
  LET p == parse_u64(raw) IN
    IF ~p.ok
    THEN [ok |-> FALSE, val |-> 0, err |-> "not a valid positive integer"]
    ELSE IF ~(MIN_SPEED <= p.val /\ p.val <= MAX_SPEED)
    THEN [ok |-> FALSE, val |-> 0, err |-> "speed must be between"]
    ELSE [ok |-> TRUE, val |-> p.val, err |-> "none"]

\* ------------------------------------------------------ the bundled writings
File(path, body) == [path |-> path, body |-> body]
DotTxt == <<".", "t", "x", "t">>
DotMd == <<".", "m", "d">>

\* Path::file_stem: the file name up to its last dot, the whole name when it
\* has no dot or only a leading one.
file_stem(path) ==
  LET dots == {i \in DOMAIN path : path[i] = "."} IN
    IF dots \subseteq {1}
    THEN path
    ELSE SubSeq(path, 1, (CHOOSE i \in dots : \A j \in dots : j <= i) - 1)

\* read_poem: the exact <name>.txt first, else the first file in files()
\* order whose stem equals the name up to ASCII letter case.
read_poem(table, name) ==
  LET trimmed == trim(name)
      filename == trimmed \o DotTxt
      exact == {i \in DOMAIN table : table[i].path = filename}
      byStem == {i \in DOMAIN table :
                   eq_ignore_ascii_case(file_stem(table[i].path), trimmed)}
  IN  IF trimmed = << >>
      THEN [ok |-> FALSE, body |-> << >>, err |-> "Writing name must not be empty"]
      ELSE IF exact # {}
      THEN [ok |-> TRUE, body |-> table[CHOOSE i \in exact : TRUE].body,
            err |-> "none"]
      ELSE IF byStem # {}
      THEN [ok |-> TRUE,
            body |-> table[CHOOSE i \in byStem : \A j \in byStem : i <= j].body,
            err |-> "none"]
      ELSE [ok |-> FALSE, body |-> << >>, err |-> "Writing not found"]

\* What a run is started with: one bundled writing a.txt of any text, and an
\* argument of each kind main tells apart.
RunArgs ==
  { <<"a">>, << >>, <<" ", "\t">>, <<"b">>, <<"h", "e", "l", "p">>,
    <<"L", "I", "S", "T">> }
RunSpeeds == { <<"2", "5">>, <<"0">> }
RunTables == { << File(<<"a">> \o DotTxt, t) >> : t \in Texts }

VARIABLES
  pc,             \* position of the control flow
  tui,            \* Cli.tui
  text,           \* the poem, a sequence of characters
  gstate,         \* "none" | "live" | "dropped": lifetime of the TerminalGuard
  guard,          \* the TerminalGuard's three fields
  term,           \* the terminal device: alternate screen, raw mode, cursor hidden
  cmds,           \* terminal commands issued so far, each with its outcome
  teardowns,      \* the stretch of cmds each finish()/drop() issued
  queue,          \* input events delivered and not yet read
  col, row,       \* typewriter_print locals
  idx,            \* characters the typewriter loop has taken from text.chars()
  out,            \* glyphs written by typewriter_print
  exit_requested, \* typewriter_print local
  emitPolls,      \* polls made inside the typewriter loop
  held,           \* a hold-phase poll was made
  lastPoll,       \* phase and return value of the latest poll
  elapsed,        \* latest reading of start.elapsed() in ms
  shown,          \* tui_reveal local
  frame,          \* text of the latest frame drawn
  tuiHidden,      \* ratatui Terminal's hidden_cursor
  result,         \* what the run returned
  errAt,          \* phase in which the run's error arose
  calls,          \* GuardSpec: method calls made on the guard
  lastCall,       \* GuardSpec: latest method called and whether it returned Ok
  finished,       \* GuardSpec: finish() has returned Ok on this guard
  arg,            \* the ACTION argument as typed, a sequence of characters
  speedArg,       \* the --speed argument as typed
  assets,         \* the bundled files, in the order files() yields them
  ret,            \* LookupSpec, SpeedSpec: what the function under study returned
  ending,         \* how the presentation run ended
  lag             \* reveal steps taken with a dismiss signal delivered and unread

vars == << pc, tui, text, gstate, guard, term, cmds, teardowns, queue, col, row,
           idx, out, exit_requested, emitPolls, held, lastPoll, elapsed, shown, lag,
           frame, tuiHidden, result, errAt, ending, calls, lastCall, finished, arg,
           speedArg, assets, ret >>

guardVars == << gstate, guard, term, cmds, teardowns, tuiHidden >>
twVars == << col, row, idx, exit_requested, emitPolls, held >>
locals == << twVars, lastPoll, elapsed, shown, lag, tuiHidden, out, frame >>
harnessVars == << calls, lastCall, finished >>
cliVars == << arg, speedArg, assets, ret >>

\* ---------------------------------------------------------- TerminalGuard
NoGuard == [raw_mode |-> FALSE, alt_screen |-> FALSE, cursor_hidden |-> FALSE]
FreshTerm == [alt |-> FALSE, raw |-> FALSE, cursor_hidden |-> FALSE]

\* A command written to the terminal, its outcome and the guard's flags when issued.
Issued(cmd, ok, g) == [cmd |-> cmd, ok |-> ok, g |-> g]

\* The guard, the device and the command log threaded through a call chain;
\* ok is the Result of the latest call.
Cur == [g |-> guard, t |-> term, log |-> cmds, td |-> teardowns, ok |-> TRUE]

Commit(s) ==
  /\ guard' = s.g
  /\ term' = s.t
  /\ cmds' = s.log
  /\ teardowns' = s.td

enter(s, hide_cursor, fail) ==
  IF fail = "alt"
  THEN [s EXCEPT !.log = Append(@, Issued("EnterAlt", FALSE, s.g)), !.ok = FALSE]
  ELSE IF fail = "raw"
  THEN [s EXCEPT !.log = @ \o << Issued("EnterAlt", TRUE, s.g),
                                 Issued("EnableRaw", FALSE, s.g) >>,
                 !.t.alt = TRUE,
                 !.ok = FALSE]
  ELSE IF fail = "hide" /\ hide_cursor
  THEN [s EXCEPT !.log = @ \o << Issued("EnterAlt", TRUE, s.g),
                                 Issued("EnableRaw", TRUE, s.g),
                                 Issued("Hide", FALSE, s.g) >>,
                 !.t.alt = TRUE,
                 !.t.raw = TRUE,
                 !.ok = FALSE]
  ELSE [s EXCEPT !.log = @ \o << Issued("EnterAlt", TRUE, s.g),
                                 Issued("EnableRaw", TRUE, s.g) >>
                             \o (IF hide_cursor
                                 THEN << Issued("Hide", TRUE, s.g) >>
                                 ELSE << >>),
                 !.t.alt = TRUE,
                 !.t.raw = TRUE,
                 !.t.cursor_hidden = (@ \/ hide_cursor),
                 !.g = [raw_mode |-> TRUE, alt_screen |-> TRUE,
                        cursor_hidden |-> hide_cursor],
                 !.ok = TRUE]

clear(s, fail) ==
  [s EXCEPT !.log = Append(@, Issued("Clear", ~fail, s.g)), !.ok = ~fail]

\* show_cursor without its `if self.cursor_hidden` test.
show_cursor_unguarded(s, fail) ==
  IF fail
  THEN [s EXCEPT !.log = Append(@, Issued("Show", FALSE, s.g)), !.ok = FALSE]
  ELSE [s EXCEPT !.log = Append(@, Issued("Show", TRUE, s.g)),
                 !.t.cursor_hidden = FALSE,
                 !.g.cursor_hidden = FALSE,
                 !.ok = TRUE]

show_cursor(s, fail) ==
  IF s.g.cursor_hidden
  THEN IF fail
       THEN [s EXCEPT !.log = Append(@, Issued("Show", FALSE, s.g)), !.ok = FALSE]
       ELSE [s EXCEPT !.log = Append(@, Issued("Show", TRUE, s.g)),
                      !.t.cursor_hidden = FALSE,
                      !.g.cursor_hidden = FALSE,
                      !.ok = TRUE]
  ELSE [s EXCEPT !.ok = TRUE]

disable_raw_mode(s, fail) ==
  IF s.g.raw_mode
  THEN IF fail
       THEN [s EXCEPT !.log = Append(@, Issued("DisableRaw", FALSE, s.g)), !.ok = FALSE]
       ELSE [s EXCEPT !.log = Append(@, Issued("DisableRaw", TRUE, s.g)),
                      !.t.raw = FALSE,
                      !.g.raw_mode = FALSE,
                      !.ok = TRUE]
  ELSE [s EXCEPT !.ok = TRUE]

leave_alt_screen(s, fail) ==
  IF s.g.alt_screen
  THEN IF fail
       THEN [s EXCEPT !.log = Append(@, Issued("LeaveAlt", FALSE, s.g)), !.ok = FALSE]
       ELSE [s EXCEPT !.log = Append(@, Issued("LeaveAlt", TRUE, s.g)),
                      !.t.alt = FALSE,
                      !.g.alt_screen = FALSE,
                      !.ok = TRUE]
  ELSE [s EXCEPT !.ok = TRUE]

\* The stretch of the log one teardown issued.
Stretch(by, before, after) ==
  [by |-> by, from |-> Len(before.log) + 1, to |-> Len(after.log)]

\* finish releasing in the opposite order.
finish_leaves_first(s, F) ==
  LET s1 == leave_alt_screen(s, "LeaveAlt" \in F)
      s2 == IF s1.ok THEN disable_raw_mode(s1, "DisableRaw" \in F) ELSE s1
      s3 == IF s2.ok THEN show_cursor(s2, "Show" \in F) ELSE s2
  IN  [s3 EXCEPT !.td = Append(@, Stretch("finish", s, s3))]

\* F: the releases whose terminal command fails if it is issued.
finish(s, F) ==
  LET s1 == show_cursor(s, "Show" \in F)
      s2 == IF s1.ok THEN disable_raw_mode(s1, "DisableRaw" \in F) ELSE s1
      s3 == IF s2.ok THEN leave_alt_screen(s2, "LeaveAlt" \in F) ELSE s2
  IN  [s3 EXCEPT !.td = Append(@, Stretch("finish", s, s3))]

\* drop giving up at the first release that fails, as finish does.
drop_stops_at_failure(s, F) ==
  LET s1 == show_cursor(s, "Show" \in F)
      s2 == IF s1.ok THEN disable_raw_mode(s1, "DisableRaw" \in F) ELSE s1
      s3 == IF s2.ok THEN leave_alt_screen(s2, "LeaveAlt" \in F) ELSE s2
  IN  [s3 EXCEPT !.ok = s.ok, !.td = Append(@, Stretch("drop", s, s3))]

\* Drop that forgets raw mode.
drop_skips_raw_mode(s, F) ==
  LET s1 == show_cursor(s, "Show" \in F)
      s3 == leave_alt_screen(s1, "LeaveAlt" \in F)
  IN  [s3 EXCEPT !.ok = s.ok, !.td = Append(@, Stretch("drop", s, s3))]

\* Drop discards each release's Result; the caller's Result (s.ok) stands.
drop(s, F) ==
  LET s1 == show_cursor(s, "Show" \in F)
      s2 == disable_raw_mode(s1, "DisableRaw" \in F)
      s3 == leave_alt_screen(s2, "LeaveAlt" \in F)
  IN  [s3 EXCEPT !.ok = s.ok, !.td = Append(@, Stretch("drop", s, s3))]

\* ------------------------------------------------------ cancellation poller
\* is_exit_key without the CONTROL test on 'c'.
is_exit_key_any_c(key) ==
  \/ key.code \in {"Esc", "Enter"}
  \/ key.code = "Char" /\ key.ch = "q"
  \/ key.code = "Char" /\ key.ch = "c"

is_exit_key(key) ==
  \/ key.code \in {"Esc", "Enter"}
  \/ key.code = "Char" /\ key.ch = "q"
  \/ key.code = "Char" /\ key.ch = "c" /\ key.ctrl

\* poll_for_exit reading the event and returning false whatever it is.
poll_for_exit_unclassified(q, pf) ==
  IF pf = "poll" THEN [ok |-> FALSE, res |-> FALSE, queue |-> q]
  ELSE IF q = << >> THEN [ok |-> TRUE, res |-> FALSE, queue |-> q]
  ELSE IF pf = "read" THEN [ok |-> FALSE, res |-> FALSE, queue |-> q]
  ELSE [ok |-> TRUE, res |-> FALSE, queue |-> Tail(q)]

\* q: the delivered events; pf: which of event::poll / event::read fails.
poll_for_exit(q, pf) ==
  IF pf = "poll" THEN [ok |-> FALSE, res |-> FALSE, queue |-> q]
  ELSE IF q = << >> THEN [ok |-> TRUE, res |-> FALSE, queue |-> q]
  ELSE IF pf = "read" THEN [ok |-> FALSE, res |-> FALSE, queue |-> q]
  ELSE IF Head(q).type = "Key"
       THEN [ok |-> TRUE, res |-> is_exit_key(Head(q)), queue |-> Tail(q)]
       ELSE [ok |-> TRUE, res |-> FALSE, queue |-> Tail(q)]

\* An exit key has been delivered and not read yet.
DismissPending ==
  \E i \in DOMAIN queue : queue[i].type = "Key" /\ is_exit_key(queue[i])

\* The input source delivers one more event.
Deliver ==
  /\ pc # "done"
  /\ Len(queue) < MaxQueue
  /\ \E e \in RunEvents : queue' = Append(queue, e)
  /\ UNCHANGED << pc, tui, text, guardVars, twVars, lastPoll, elapsed, shown, lag,
                  out, frame, result, errAt, ending, harnessVars, cliVars >>

\* ---------------------------------------------------------------- main
NoRet == [ok |-> FALSE, val |-> 0, err |-> "unset"]
NoArgs ==
  /\ arg = << >>
  /\ speedArg = << >>
  /\ assets = << >>

\* Nothing has run yet: no guard, an untouched terminal, no input delivered.
Fresh ==
  /\ gstate = "none"
  /\ guard = NoGuard
  /\ term = FreshTerm
  /\ cmds = << >>
  /\ teardowns = << >>
  /\ queue = << >>
  /\ col = 0
  /\ row = 0
  /\ idx = 0
  /\ out = << >>
  /\ exit_requested = FALSE
  /\ emitPolls = 0
  /\ held = FALSE
  /\ lastPoll = [phase |-> "none", res |-> FALSE]
  /\ elapsed = 0
  /\ shown = 0
  /\ frame = << >>
  /\ tuiHidden = FALSE
  /\ result = "none"
  /\ errAt = "none"
  /\ ending = "none"
  /\ lag = 0
  /\ calls = 0
  /\ lastCall = [op |-> "none", ok |-> TRUE]
  /\ finished = FALSE
  /\ ret = NoRet

Init ==
  /\ pc = "main"
  /\ tui \in BOOLEAN
  /\ arg \in RunArgs
  /\ speedArg \in RunSpeeds
  /\ assets \in RunTables
  /\ text = << >>
  /\ Fresh

\* main ends without a presentation run: a rejected argument, help, list, or
\* a writing that was not found.
MainExit(res, at) ==
  /\ pc' = "done"
  /\ result' = res
  /\ errAt' = at
  /\ UNCHANGED text

\* main calling the reveal whatever read_poem returned.
MainIgnoresLookup ==
  /\ pc = "main"
  /\ LET action == parse_action(arg)
         speed == parse_speed(speedArg)
         poem == read_poem(assets, action.name)
     IN  IF ~action.ok \/ ~speed.ok
         THEN MainExit("Err", "args")
         ELSE IF action.action \in {"Help", "List"}
         THEN MainExit("Ok", "none")
         ELSE /\ text' = poem.body
              /\ pc' = IF tui THEN "tui_enter" ELSE "tw_enter"
              /\ UNCHANGED << result, errAt >>
  /\ UNCHANGED << tui, guardVars, queue, twVars, lastPoll, elapsed, shown, lag,
                  out, frame, ending, harnessVars, cliVars >>

\* Cli::parse (parse_action and parse_speed on the arguments), then the match:
\* help and list print and return; Show(name) reads the writing and, only with
\* its text in hand, calls the reveal the --tui flag selects.
Main ==
  /\ pc = "main"
  /\ LET action == parse_action(arg)
         speed == parse_speed(speedArg)
         poem == read_poem(assets, action.name)
     IN  IF ~action.ok \/ ~speed.ok
         THEN MainExit("Err", "args")
         ELSE IF action.action \in {"Help", "List"}
         THEN MainExit("Ok", "none")
         ELSE IF ~poem.ok
         THEN MainExit("Err", "lookup")
         ELSE /\ text' = poem.body
              /\ pc' = IF tui THEN "tui_enter" ELSE "tw_enter"
              /\ UNCHANGED << result, errAt >>
  /\ UNCHANGED << tui, guardVars, queue, twVars, lastPoll, elapsed, shown, lag,
                  out, frame, ending, harnessVars, cliVars >>

\* ratatui's Terminal::hide_cursor / show_cursor on the same device.
tui_hide_cursor(s, fail) ==
  IF fail
  THEN [s EXCEPT !.log = Append(@, Issued("TuiHide", FALSE, s.g)), !.ok = FALSE]
  ELSE [s EXCEPT !.log = Append(@, Issued("TuiHide", TRUE, s.g)),
                 !.t.cursor_hidden = TRUE,
                 !.ok = TRUE]

tui_show_cursor(s, fail) ==
  IF fail
  THEN [s EXCEPT !.log = Append(@, Issued("TuiShow", FALSE, s.g)), !.ok = FALSE]
  ELSE [s EXCEPT !.log = Append(@, Issued("TuiShow", TRUE, s.g)),
                 !.t.cursor_hidden = FALSE,
                 !.ok = TRUE]

\* The Terminal value goes out of scope before the guard does. Its destructor is
\* library code: with its cursor still hidden it may try to show it again
\* (lib = "ok" or "fail") or do nothing (lib = "skip"); the outcome is discarded.
LibDrops == {"skip", "ok", "fail"}
terminal_drop(s, hidden, lib) ==
  IF hidden /\ lib # "skip"
  THEN [tui_show_cursor(s, lib = "fail") EXCEPT !.ok = s.ok]
  ELSE s

\* The locals of the running function, the ratatui Terminal's field aside, as
\* they are once the function is left.
LocalsGone ==
  /\ col' = 0
  /\ row' = 0
  /\ idx' = 0
  /\ exit_requested' = FALSE
  /\ emitPolls' = 0
  /\ held' = FALSE
  /\ lastPoll' = [phase |-> "none", res |-> FALSE]
  /\ elapsed' = 0
  /\ shown' = 0
  /\ out' = << >>
  /\ frame' = << >>
  /\ lag' = 0

\* TerminalGuard::enter failed: there is no guard, the function returns Err.
EnterFailed(s) ==
  /\ Commit(s)
  /\ pc' = "done"
  /\ result' = "Err"
  /\ errAt' = "enter"
  /\ ending' = "failed"
  /\ LocalsGone
  /\ UNCHANGED << gstate, tuiHidden >>

\* The way a presentation run ends: on an error; with every character shown
\* and the dismiss key read after that; or with the dismiss key read earlier
\* (the typewriter loop's break, a tui_reveal break with shown < total_chars).
Ending(at) ==
  IF at # "none" THEN "failed"
  ELSE IF tui THEN (IF shown >= Len(text) THEN "completed" ELSE "cancelled")
  ELSE IF exit_requested THEN "cancelled" ELSE "completed"

\* The function leaves its body with the guard live (a ? that returns Err, or
\* the final Ok): s is the device as the body left it; the values still in scope
\* are dropped next, in ScopeExit.
Leave(s, res, at) ==
  /\ Commit(s)
  /\ pc' = "unwind"
  /\ result' = res
  /\ errAt' = at
  /\ ending' = Ending(at)
  /\ gstate' = "live"
  /\ LocalsGone

\* An I/O error in the body, the device untouched by the failed call.
Raise(at) == Leave(Cur, "Err", at) /\ UNCHANGED tuiHidden

\* The Terminal (tui_reveal only) and then the TerminalGuard go out of scope.
ScopeExit ==
  /\ pc = "unwind"
  /\ \E lib \in LibDrops, F \in SUBSET Releases :
       Commit(drop(terminal_drop(Cur, tuiHidden, lib), F))
  /\ pc' = "done"
  /\ gstate' = "dropped"
  /\ tuiHidden' = FALSE
  /\ UNCHANGED << tui, text, queue, twVars, lastPoll, elapsed, shown, lag, out, frame,
                  result, errAt, ending, harnessVars, cliVars >>

\* ---------------------------------------------------- typewriter_print
SatAdd(n) == Min(n + 1, U16Max)

\* The two style tests in the opposite order.
StyleBlueFirst(c, r) ==
  IF c % AccentBMod = 0 THEN "Blue"
  ELSE IF (c + r) % AccentAMod = 0 THEN "Magenta"
  ELSE "None"

Style(c, r) ==
  IF (c + r) % AccentAMod = 0 THEN "Magenta"
  ELSE IF c % AccentBMod = 0 THEN "Blue"
  ELSE "None"

Glyph(ch, c, r) == [ch |-> ch, col |-> c, row |-> r, style |-> Style(c, r)]

TwEnter ==
  /\ pc = "tw_enter"
  /\ \E fail \in EnterFailures :
       LET s == enter(Cur, TRUE, fail) IN
         IF s.ok
         THEN /\ Commit(s)
              /\ pc' = "tw_clear"
              /\ gstate' = "live"
              /\ UNCHANGED << locals, result, errAt, ending >>
         ELSE EnterFailed(s)
  /\ UNCHANGED << tui, text, queue, harnessVars, cliVars >>

\* TwClear going on to the loop whether guard.clear() failed or not.
TwClearUnchecked ==
  /\ pc = "tw_clear"
  /\ \E fail \in BOOLEAN :
       /\ Commit(clear(Cur, fail))
       /\ pc' = "tw_loop"
       /\ UNCHANGED << locals, gstate, result, errAt, ending >>
  /\ UNCHANGED << tui, text, queue, harnessVars, cliVars >>

\* guard.clear()?
TwClear ==
  /\ pc = "tw_clear"
  /\ \E fail \in BOOLEAN :
       LET s == clear(Cur, fail) IN
         IF s.ok
         THEN /\ Commit(s)
              /\ pc' = "tw_loop"
              /\ UNCHANGED << locals, gstate, result, errAt, ending >>
         ELSE Leave(s, "Err", "clear") /\ UNCHANGED tuiHidden
  /\ UNCHANGED << tui, text, queue, harnessVars, cliVars >>

\* One pass of the loop body up to the poll; fail: the write of this pass fails
\* (cursor::MoveTo for a line break; write! or flush for a glyph).
TwEmit ==
  /\ pc = "tw_loop"
  /\ ~exit_requested
  /\ idx < Len(text)
  /\ LET ch == text[idx + 1] IN
     \E fail \in BOOLEAN :
       IF fail
       THEN Raise("reveal")
       ELSE /\ out' = IF ch = NL THEN out ELSE Append(out, Glyph(ch, col, row))
            /\ idx' = idx + 1
            /\ col' = IF ch = NL THEN 0 ELSE SatAdd(col)
            /\ row' = IF ch = NL THEN SatAdd(row) ELSE row
            /\ pc' = "tw_poll"
            /\ lag' = IF DismissPending THEN lag + 1 ELSE lag
            /\ UNCHANGED << guardVars, exit_requested, emitPolls, held, lastPoll,
                            elapsed, shown, frame, result, errAt, ending >>
  /\ UNCHANGED << tui, text, queue, harnessVars, cliVars >>

TwPoll ==
  /\ pc = "tw_poll"
  /\ \E pf \in PollFailures :
       LET r == poll_for_exit(queue, pf) IN
         IF r.ok
         THEN /\ queue' = r.queue
              /\ lastPoll' = [phase |-> "emit", res |-> r.res]
              /\ exit_requested' = r.res
              /\ emitPolls' = emitPolls + 1
              /\ pc' = "tw_loop"
              /\ UNCHANGED << guardVars, col, row, idx, held, elapsed, shown, lag,
                              out, frame, result, errAt, ending >>
         ELSE Raise("reveal") /\ UNCHANGED queue
  /\ UNCHANGED << tui, text, harnessVars, cliVars >>

\* TwFlush without the `if !exit_requested` test before the hold loop.
TwFlushAlwaysHolds ==
  /\ pc = "tw_loop"
  /\ exit_requested \/ idx = Len(text)
  /\ \E fail \in BOOLEAN :
       IF fail
       THEN Raise("reveal")
       ELSE /\ pc' = "tw_hold"
            /\ UNCHANGED << guardVars, locals, result, errAt, ending >>
  /\ UNCHANGED << tui, text, queue, harnessVars, cliVars >>

\* stdout.flush() after the loop, then the choice between hold and teardown.
TwFlush ==
  /\ pc = "tw_loop"
  /\ exit_requested \/ idx = Len(text)
  /\ \E fail \in BOOLEAN :
       IF fail
       THEN Raise("reveal")
       ELSE /\ pc' = IF exit_requested THEN "tw_finish" ELSE "tw_hold"
            /\ UNCHANGED << guardVars, locals, result, errAt, ending >>
  /\ UNCHANGED << tui, text, queue, harnessVars, cliVars >>

\* TwHold leaving the hold loop on any event read, exit key or not.
TwHoldAnyEvent ==
  /\ pc = "tw_hold"
  /\ \E pf \in PollFailures :
       LET r == poll_for_exit(queue, pf) IN
         IF r.ok
         THEN /\ queue' = r.queue
              /\ lastPoll' = [phase |-> "hold", res |-> r.res]
              /\ held' = TRUE
              /\ pc' = IF queue # << >> THEN "tw_finish" ELSE "tw_hold"
              /\ UNCHANGED << guardVars, col, row, idx, exit_requested, emitPolls,
                              elapsed, shown, lag, out, frame, result, errAt, ending >>
         ELSE Raise("hold") /\ UNCHANGED queue
  /\ UNCHANGED << tui, text, harnessVars, cliVars >>

TwHold ==
  /\ pc = "tw_hold"
  /\ \E pf \in PollFailures :
       LET r == poll_for_exit(queue, pf) IN
         IF r.ok
         THEN /\ queue' = r.queue
              /\ lastPoll' = [phase |-> "hold", res |-> r.res]
              /\ held' = TRUE
              /\ pc' = IF r.res THEN "tw_finish" ELSE "tw_hold"
              /\ UNCHANGED << guardVars, col, row, idx, exit_requested, emitPolls,
                              elapsed, shown, lag, out, frame, result, errAt, ending >>
         ELSE Raise("hold") /\ UNCHANGED queue
  /\ UNCHANGED << tui, text, harnessVars, cliVars >>

\* TwFinish returning Ok(()) whatever guard.finish() returned.
TwFinishSwallowsError ==
  /\ pc = "tw_finish"
  /\ \E F \in SUBSET Releases : Leave(finish(Cur, F), "Ok", "none")
  /\ UNCHANGED << tui, text, queue, tuiHidden, harnessVars, cliVars >>

\* guard.finish()?; Ok(())
TwFinish ==
  /\ pc = "tw_finish"
  /\ \E F \in SUBSET Releases :
       LET s == finish(Cur, F) IN
         IF s.ok
         THEN Leave(s, "Ok", "none")
         ELSE Leave(s, "Err", "teardown")
  /\ UNCHANGED << tui, text, queue, tuiHidden, harnessVars, cliVars >>

\* ------------------------------------------------------------ tui_reveal
\* shown without the .min(total_chars).
ShownUncapped(ms, total) == ms \div RevealRate

\* shown for a clock reading of ms milliseconds and a text of total characters.
Shown(ms, total) == Min(ms \div RevealRate, total)

\* text.chars().take(n).collect()
Take(t, n) == SubSeq(t, 1, Min(n, Len(t)))

\* tui_poll with every event read, a resize too, matched as an exit.
tui_poll_any_event(q, pf) ==
  IF pf = "poll" THEN [ok |-> FALSE, res |-> FALSE, queue |-> q]
  ELSE IF q = << >> THEN [ok |-> TRUE, res |-> FALSE, queue |-> q]
  ELSE IF pf = "read" THEN [ok |-> FALSE, res |-> FALSE, queue |-> q]
  ELSE [ok |-> TRUE, res |-> TRUE, queue |-> Tail(q)]

\* event::poll(..)? then event::read()? matched against an exit key.
tui_poll(q, pf) ==
  IF pf = "poll" THEN [ok |-> FALSE, res |-> FALSE, queue |-> q]
  ELSE IF q = << >> THEN [ok |-> TRUE, res |-> FALSE, queue |-> q]
  ELSE IF pf = "read" THEN [ok |-> FALSE, res |-> FALSE, queue |-> q]
  ELSE [ok |-> TRUE,
        res |-> (Head(q).type = "Key" /\ is_exit_key(Head(q))),
        queue |-> Tail(q)]

\* TerminalGuard::enter(true)?, Terminal::new(backend)?, terminal.hide_cursor()?.
TuiEnter ==
  /\ pc = "tui_enter"
  /\ \E fail \in EnterFailures \cup {"new", "tuihide"} :
       LET s == enter(Cur, TRUE, fail)
           h == tui_hide_cursor(s, fail = "tuihide")
       IN  IF ~s.ok
           THEN EnterFailed(s)
           ELSE IF fail = "new"
           THEN Leave(s, "Err", "setup") /\ UNCHANGED tuiHidden
           ELSE IF ~h.ok
           THEN Leave(h, "Err", "setup") /\ UNCHANGED tuiHidden
           ELSE /\ Commit(h)
                /\ pc' = "tui_frame"
                /\ gstate' = "live"
                /\ tuiHidden' = TRUE
                /\ UNCHANGED << twVars, lastPoll, elapsed, shown, lag, out, frame,
                                result, errAt, ending >>
  /\ UNCHANGED << tui, text, queue, harnessVars, cliVars >>

\* Top of the loop: read the clock, compute shown, draw one frame.
TuiFrame ==
  /\ pc = "tui_frame"
  /\ \E fail \in BOOLEAN :
       IF fail
       THEN Raise("reveal")
       ELSE \E d \in Ticks :
              /\ elapsed + d <= MaxElapsed
              /\ elapsed' = elapsed + d
              /\ shown' = Shown(elapsed + d, Len(text))
              /\ frame' = Take(text, Shown(elapsed + d, Len(text)))
              /\ pc' = "tui_poll"
              /\ lag' = IF DismissPending THEN lag + 1 ELSE lag
              /\ UNCHANGED << guardVars, twVars, lastPoll, out, result, errAt, ending >>
  /\ UNCHANGED << tui, text, queue, harnessVars, cliVars >>

\* TuiPoll as an iteration's only poll: the 100 ms poll is never made.
TuiPollOnly ==
  /\ pc = "tui_poll"
  /\ \E pf \in PollFailures :
       LET r == tui_poll(queue, pf) IN
         IF r.ok
         THEN /\ queue' = r.queue
              /\ pc' = IF r.res THEN "tui_finish" ELSE "tui_frame"
              /\ UNCHANGED << guardVars, twVars, lastPoll, elapsed, shown, lag, out, frame,
                              result, errAt, ending >>
         ELSE Raise("reveal") /\ UNCHANGED queue
  /\ UNCHANGED << tui, text, harnessVars, cliVars >>

\* The 16 ms poll every iteration makes.
TuiPoll ==
  /\ pc = "tui_poll"
  /\ \E pf \in PollFailures :
       LET r == tui_poll(queue, pf) IN
         IF r.ok
         THEN /\ queue' = r.queue
              /\ pc' = IF r.res THEN "tui_finish"
                       ELSE IF shown >= Len(text) THEN "tui_hold"
                       ELSE "tui_frame"
              /\ UNCHANGED << guardVars, twVars, lastPoll, elapsed, shown, lag, out, frame,
                              result, errAt, ending >>
         ELSE Raise("reveal") /\ UNCHANGED queue
  /\ UNCHANGED << tui, text, harnessVars, cliVars >>

\* The further 100 ms poll of an iteration whose shown has reached total_chars.
TuiHold ==
  /\ pc = "tui_hold"
  /\ \E pf \in PollFailures :
       LET r == tui_poll(queue, pf) IN
         IF r.ok
         THEN /\ queue' = r.queue
              /\ pc' = IF r.res THEN "tui_finish" ELSE "tui_frame"
              /\ UNCHANGED << guardVars, twVars, lastPoll, elapsed, shown, lag, out, frame,
                              result, errAt, ending >>
         ELSE Raise("hold") /\ UNCHANGED queue
  /\ UNCHANGED << tui, text, harnessVars, cliVars >>

\* terminal.show_cursor()?; guard.finish()?; Ok(())
TuiFinish ==
  /\ pc = "tui_finish"
  /\ \E sf \in BOOLEAN, F \in SUBSET Releases :
       LET s0 == tui_show_cursor(Cur, sf)
           s1 == finish(s0, F)
       IN  IF ~s0.ok
           THEN Leave(s0, "Err", "teardown") /\ UNCHANGED tuiHidden
           ELSE /\ tuiHidden' = FALSE
                /\ IF s1.ok
                   THEN Leave(s1, "Ok", "none")
                   ELSE Leave(s1, "Err", "teardown")
  /\ UNCHANGED << tui, text, queue, harnessVars, cliVars >>

Next ==
  \/ Main
  \/ Deliver
  \/ TwEnter
  \/ TwClear
  \/ TwEmit
  \/ TwPoll
  \/ TwFlush
  \/ TwHold
  \/ TwFinish
  \/ TuiEnter
  \/ TuiFrame
  \/ TuiPoll
  \/ TuiHold
  \/ TuiFinish
  \/ ScopeExit

Spec == Init /\ [][Next]_vars

\* The process is a single thread that runs each statement in turn, and every
\* poll returns when its timeout expires: the next statement is always
\* eventually executed. Nothing obliges a terminal operation to fail, so the
\* fairness is on the steps that raise no new I/O error.
Program ==
  \/ Main
  \/ TwEnter
  \/ TwClear
  \/ TwEmit
  \/ TwPoll
  \/ TwFlush
  \/ TwHold
  \/ TwFinish
  \/ TuiEnter
  \/ TuiFrame
  \/ TuiPoll
  \/ TuiHold
  \/ TuiFinish
  \/ ScopeExit
Step == Program /\ (pc = "main" \/ errAt' = errAt)

\* Whether and when a run ends depends on the text through its length only
\* (line breaks move col and row, which no poll reads), and not on which of the
\* accepted arguments selected it: the empty text, whose reveal is over at
\* once, and a text of MaxTextLen characters, selected by a plain name.
FairTexts == { << >>, [i \in 1..MaxTextLen |-> "x"] }
FairInit ==
  /\ pc = "main"
  /\ tui \in BOOLEAN
  /\ arg = <<"a">>
  /\ speedArg = <<"2", "5">>
  /\ assets \in { << File(<<"a">> \o DotTxt, t) >> : t \in FairTexts }
  /\ text = << >>
  /\ Fresh

FairSpec == FairInit /\ [][Next]_vars /\ WF_vars(Step)

\* ------------------------------------------- the guard's methods, any order
\* A caller holding a TerminalGuard may call its methods in any order and any
\* number of times before the guard is dropped.
GuardInit ==
  /\ pc = "g_new"
  /\ tui = FALSE
  /\ text = << >>
  /\ NoArgs
  /\ Fresh

GEnter ==
  /\ pc = "g_new"
  /\ \E hide_cursor \in BOOLEAN, fail \in EnterFailures :
       LET s == enter(Cur, hide_cursor, fail) IN
         /\ Commit(s)
         /\ pc' = IF s.ok THEN "g_live" ELSE "g_done"
         /\ gstate' = IF s.ok THEN "live" ELSE "none"
         /\ lastCall' = [op |-> "enter", ok |-> s.ok]
  /\ UNCHANGED << tui, text, queue, locals, result, errAt, ending, calls, finished,
                  cliVars >>

\* One method call on the live guard; s is the guard and device after it.
Called(op, s) ==
  /\ pc = "g_live"
  /\ calls < MaxCalls
  /\ Commit(s)
  /\ calls' = calls + 1
  /\ lastCall' = [op |-> op, ok |-> s.ok]
  /\ finished' = (finished \/ (op = "finish" /\ s.ok))
  /\ UNCHANGED << pc, tui, text, gstate, queue, locals, result, errAt, ending,
                  cliVars >>

GClear == \E fail \in BOOLEAN : Called("clear", clear(Cur, fail))

GShowCursor == \E fail \in BOOLEAN : Called("show_cursor", show_cursor(Cur, fail))

GDisableRawMode ==
  \E fail \in BOOLEAN : Called("disable_raw_mode", disable_raw_mode(Cur, fail))

GLeaveAltScreen ==
  \E fail \in BOOLEAN : Called("leave_alt_screen", leave_alt_screen(Cur, fail))

GFinish == \E F \in SUBSET Releases : Called("finish", finish(Cur, F))

GDrop ==
  /\ pc = "g_live"
  /\ \E F \in SUBSET Releases : Commit(drop(Cur, F))
  /\ pc' = "g_done"
  /\ gstate' = "dropped"
  /\ lastCall' = [op |-> "drop", ok |-> TRUE]
  /\ UNCHANGED << tui, text, queue, locals, result, errAt, ending, calls, finished,
                  cliVars >>

GuardNext ==
  \/ GEnter
  \/ GClear
  \/ GShowCursor
  \/ GDisableRawMode
  \/ GLeaveAltScreen
  \/ GFinish
  \/ GDrop

GuardSpec == GuardInit /\ [][GuardNext]_vars

\* ------------------------------------------------ poll_for_exit on any input
PollInit ==
  /\ pc = "p_idle"
  /\ tui = FALSE
  /\ text = << >>
  /\ NoArgs
  /\ Fresh

\* The input source delivers any event crossterm can report.
PDeliver ==
  /\ pc = "p_idle"
  /\ Len(queue) < MaxQueue
  /\ \E e \in Events : queue' = Append(queue, e)
  /\ UNCHANGED << pc, tui, text, guardVars, twVars, lastPoll, elapsed, shown, lag,
                  out, frame, result, errAt, ending, harnessVars, cliVars >>

PPoll ==
  /\ pc = "p_idle"
  /\ \E pf \in PollFailures :
       LET r == poll_for_exit(queue, pf) IN
         IF r.ok
         THEN /\ queue' = r.queue
              /\ lastPoll' = [phase |-> "call", res |-> r.res]
              /\ UNCHANGED << pc, result >>
         ELSE /\ pc' = "p_done"
              /\ result' = "Err"
              /\ UNCHANGED << queue, lastPoll >>
  /\ UNCHANGED << tui, text, guardVars, twVars, elapsed, shown, lag, out, frame,
                  errAt, ending, harnessVars, cliVars >>

PollNext ==
  \/ PDeliver
  \/ PPoll

PollSpec == PollInit /\ [][PollNext]_vars

\* ------------------------------------------------- read_poem on any table
\* The bundle is whatever assets/poems held at build time: up to MaxFiles
\* files with distinct paths, in any order.
PathPool == { <<"a">> \o DotTxt, <<"A">> \o DotTxt, <<"a">> \o DotMd }
Bodies == { <<"X">>, <<"Y">> }
Tables ==
  { t \in SeqsUpTo({File(p, b) : p \in PathPool, b \in Bodies}, MaxFiles) :
      \A i, j \in DOMAIN t : t[i].path = t[j].path => i = j }
LookupNames ==
  { <<"a">>, <<"A">>, <<" ", "a", "\t">>, <<"b">>, << >>, <<" ", " ", " ">> }

LookupInit ==
  /\ pc = "l_idle"
  /\ tui = FALSE
  /\ text = << >>
  /\ arg \in LookupNames
  /\ speedArg = << >>
  /\ assets \in Tables
  /\ Fresh

\* read_poem called with the name as given, in upper case and in lower case.
LLookup ==
  /\ pc = "l_idle"
  /\ ret' = [given |-> read_poem(assets, arg),
             upper |-> read_poem(assets, to_uppercase(arg)),
             lower |-> read_poem(assets, to_lowercase(arg))]
  /\ pc' = "l_done"
  /\ UNCHANGED << tui, text, guardVars, queue, locals, result, errAt, ending,
                  harnessVars, arg, speedArg, assets >>

LookupNext == LLookup

LookupSpec == LookupInit /\ [][LookupNext]_vars

\* ------------------------------------------------ parse_speed on any input
\* The decimal numeral of n, as a user types it.
RECURSIVE Decimal(_)
Decimal(n) ==
  IF n < 10
  THEN << Digits[n + 1] >>
  ELSE Decimal(n \div 10) \o << Digits[(n % 10) + 1] >>
NonNumbers ==
  { << >>, <<"x">>, <<"+">>, <<"-", "1">>, <<"1", "x">>, <<" ", "1">>,
    <<"1", ".", "5">>, <<"n", "o", "t", "-", "a">> }
SpeedInputs ==
  {Decimal(n) : n \in 0..MaxSpeedArg}
    \cup {<<"+">> \o Decimal(n) : n \in {0, 1, 25, 1000, 1001}}
    \cup {<<"0">> \o Decimal(n) : n \in {0, 7, 1000, 1001}}
    \cup NonNumbers

SpeedInit ==
  /\ pc = "s_idle"
  /\ tui = FALSE
  /\ text = << >>
  /\ arg = << >>
  /\ speedArg \in SpeedInputs
  /\ assets = << >>
  /\ Fresh

SParse ==
  /\ pc = "s_idle"
  /\ ret' = parse_speed(speedArg)
  /\ pc' = "s_done"
  /\ UNCHANGED << tui, text, guardVars, queue, locals, result, errAt, ending,
                  harnessVars, arg, speedArg, assets >>

SpeedNext == SParse

SpeedSpec == SpeedInit /\ [][SpeedNext]_vars

\* =================================================================== claims
IsRelease(c) == c.cmd \in Releases \cup {"TuiShow"}

\* No command that gives the terminal back has failed.
ReleasesSucceeded == \A i \in 1..Len(cmds) : IsRelease(cmds[i]) => cmds[i].ok

TerminalRestored == ~term.alt /\ ~term.raw /\ ~term.cursor_hidden

\* C1: whenever a run of typewriter_print or tui_reveal has returned and no
\* release command failed, the terminal is out of the alternate screen, out of
\* raw mode and its cursor is visible; this includes a return caused by an error
\* inside TerminalGuard::enter after some of its steps succeeded.
C1_TerminalRestoredOnReturn ==
  (pc = "done" /\ ReleasesSucceeded) => TerminalRestored

\* C2: an I/O error after the guard was acquired aborts the reveal, is returned
\* to the caller, and once the run has returned all three guard flags are false
\* if the release commands succeeded.
C2_MidRevealErrorTearsDown ==
  errAt \in {"clear", "setup", "reveal", "hold"} =>
    /\ result = "Err"
    /\ pc \in {"unwind", "done"}
    /\ out = << >> /\ frame = << >>
    /\ (pc = "done" /\ ReleasesSucceeded) => guard = NoGuard

C2_Witness ==
  /\ pc = "done"
  /\ errAt = "reveal"
  /\ result = "Err"
  /\ ReleasesSucceeded
  /\ guard = NoGuard
  /\ Len(teardowns) = 1
  /\ teardowns[1] = [by |-> "drop", from |-> Len(cmds) - 2, to |-> Len(cmds)]

\* C3: once finish() has returned Ok, a further finish() and the drop of the
\* guard issue no terminal command and report no error; and each of show_cursor,
\* disable_raw_mode and leave_alt_screen issues a command (its own, and only
\* that one) only when its own flag is true.
IssuesOnly(cmd) ==
  /\ Len(cmds') = Len(cmds) + 1
  /\ SubSeq(cmds', 1, Len(cmds)) = cmds
  /\ cmds'[Len(cmds')].cmd = cmd

C3_TeardownIdempotent ==
  [][ (pc = "g_live" /\ (calls' # calls \/ pc' = "g_done")) =>
        /\ (finished /\ lastCall'.op \in {"finish", "drop"}) =>
             (cmds' = cmds /\ lastCall'.ok /\ term' = term /\ guard' = guard)
        /\ lastCall'.op = "show_cursor" =>
             IF guard.cursor_hidden THEN IssuesOnly("Show") ELSE cmds' = cmds
        /\ lastCall'.op = "disable_raw_mode" =>
             IF guard.raw_mode THEN IssuesOnly("DisableRaw") ELSE cmds' = cmds
        /\ lastCall'.op = "leave_alt_screen" =>
             IF guard.alt_screen THEN IssuesOnly("LeaveAlt") ELSE cmds' = cmds
    ]_vars

C3_Witness ==
  /\ pc = "g_done"
  /\ finished
  /\ lastCall.op = "drop"
  /\ calls >= 2
  /\ Len(teardowns) >= 3
  /\ teardowns[Len(teardowns)].by = "drop"
  /\ teardowns[Len(teardowns) - 1].by = "finish"
  /\ teardowns[Len(teardowns) - 2].by = "finish"
  /\ teardowns[Len(teardowns) - 2].to = teardowns[Len(teardowns) - 2].from + 2
  /\ teardowns[Len(teardowns) - 1].to < teardowns[Len(teardowns) - 1].from

\* C4: a run whose reveal finished without error reports success even when a
\* release command fails in the teardown that ends it.
C4_TeardownFailureNotEscalated ==
  (pc = "done" /\ errAt \in {"none", "teardown"}) => result = "Ok"

\* C5: within every teardown (finish() or drop) the release commands issued
\* come in the order show cursor, disable raw mode, leave alternate screen, and
\* the alternate screen is left with raw mode and the hidden cursor no longer
\* recorded, provided the releases issued before it in that teardown succeeded.
Rank(cmd) == CASE cmd = "Show" -> 1 [] cmd = "DisableRaw" -> 2 [] cmd = "LeaveAlt" -> 3

C5_ReleaseOrder ==
  \A k \in 1..Len(teardowns) :
    LET t == teardowns[k] IN
      /\ \A i \in t.from..t.to : cmds[i].cmd \in Releases
      /\ \A i, j \in t.from..t.to : i < j => Rank(cmds[i].cmd) < Rank(cmds[j].cmd)
      /\ \A j \in t.from..t.to :
           (cmds[j].cmd = "LeaveAlt" /\ \A i \in t.from..(j - 1) : cmds[i].ok) =>
             (~cmds[j].g.raw_mode /\ ~cmds[j].g.cursor_hidden)

C5_Witness ==
  /\ pc = "done"
  /\ \E k \in 1..Len(teardowns) :
       /\ teardowns[k].by = "finish"
       /\ teardowns[k].to = teardowns[k].from + 1
       /\ ~cmds[teardowns[k].to].ok
  /\ \E k \in 1..Len(teardowns) :
       /\ teardowns[k].by = "drop"
       /\ teardowns[k].to = teardowns[k].from + 1
       /\ cmds[teardowns[k].to].ok

\* C6: poll_for_exit returns true exactly when an event was there to read and it
\* is a key event for Escape, Enter, 'q', or 'c' with the control modifier; the
\* event it read, dismiss or not, is gone from the input afterwards.
IsDismissSignal(e) ==
  /\ e.type = "Key"
  /\ \/ e.code = "Esc"
     \/ e.code = "Enter"
     \/ e.code = "Char" /\ e.ch = "q"
     \/ e.code = "Char" /\ e.ch = "c" /\ e.ctrl

RowAt(t, k) == Cardinality({j \in 1..(k - 1) : t[j] = NL})
ColAt(t, k) ==
  LET breaks == {j \in 1..(k - 1) : t[j] = NL}
  IN  IF breaks = {} THEN k - 1
      ELSE k - 1 - (CHOOSE b \in breaks : \A c \in breaks : c <= b)
Printables(t, n) == {k \in 1..n : t[k] # NL}
\* The index in t of the m-th printable character.
NthPrintable(t, m) ==
  CHOOSE k \in 1..Len(t) : t[k] # NL /\ Cardinality(Printables(t, k)) = m

\* The glyphs written are those of the first n characters of t, each once, in
\* order, each at its place.
WroteFirst(t, n) ==
  /\ Len(out) = Cardinality(Printables(t, n))
  /\ \A m \in 1..Len(out) :
       LET k == NthPrintable(t, m) IN
         /\ k <= n
         /\ out[m].ch = t[k]
         /\ out[m].col = ColAt(t, k)
         /\ out[m].row = RowAt(t, k)

\* C7: in typewriter_print, when the poll after the k-th character is the first
\* to report dismissal, exactly the first k characters have been processed, none
\* is emitted later, no hold poll is made and the run goes to teardown; for
\* "AB\nCD" dismissed on the first poll only 'A' is written and the cursor is at
\* column 1, row 0.
C7_EarlyDismissStops ==
  (~tui /\ exit_requested) =>
    /\ pc \in {"tw_loop", "tw_finish"}
    /\ lastPoll = [phase |-> "emit", res |-> TRUE]
    /\ idx = emitPolls
    /\ WroteFirst(text, emitPolls)
    /\ ~held
    /\ (text = <<"A", "B", NL, "C", "D">> /\ emitPolls = 1) =>
         /\ Len(out) = 1
         /\ out[1].ch = "A"
         /\ col = 1
         /\ row = 0

C7_Witness ==
  /\ ~tui
  /\ exit_requested
  /\ pc = "tw_finish"
  /\ text = <<"A", "B", NL, "C", "D">>
  /\ emitPolls = 1
  /\ col = 1
  /\ row = 0

\* C8: in typewriter_print, while no poll of the loop has reported dismissal,
\* the characters taken so far were each processed once in order (a line break
\* moves to column 0 of the next row and writes nothing, a printable character
\* is written and advances the column); the hold phase starts only after the
\* last character, and teardown only after a hold poll reported dismissal.
C8_FullEmissionThenHold ==
  (~tui /\ ~exit_requested /\ pc \in {"tw_loop", "tw_poll", "tw_hold", "tw_finish"}) =>
    /\ WroteFirst(text, idx)
    /\ row = RowAt(text, idx + 1)
    /\ col = ColAt(text, idx + 1)
    /\ pc \in {"tw_hold", "tw_finish"} => idx = Len(text)
    /\ pc \in {"tw_loop", "tw_poll"} => ~held
    /\ pc = "tw_finish" => (held /\ lastPoll = [phase |-> "hold", res |-> TRUE])

C8_Witness ==
  /\ ~tui
  /\ ~exit_requested
  /\ pc = "tw_finish"
  /\ text = <<"A", "B", NL, "C", "D">>
  /\ Len(out) = 4
  /\ out[3] = [ch |-> "C", col |-> 0, row |-> 1, style |-> "Blue"]
  /\ col = 2
  /\ row = 1

\* C9: every glyph typewriter_print writes is styled by its (column, row) alone:
\* magenta when (column + row) mod 7 = 0, else blue when column mod 5 = 0, else
\* unstyled, with the column counting the printable characters since the last
\* line break; so what has been written is fixed by the text and how much of it
\* was written, whatever input arrived.
StyleRule(c, r) ==
  CASE (c + r) % 7 = 0 -> "Magenta"
    [] (c + r) % 7 # 0 /\ c % 5 = 0 -> "Blue"
    [] OTHER -> "None"

C9_StyleByPosition ==
  ~tui =>
    out = [m \in 1..Len(out) |->
             LET k == NthPrintable(text, m) IN
               [ch |-> text[k], col |-> ColAt(text, k), row |-> RowAt(text, k),
                style |-> StyleRule(ColAt(text, k), RowAt(text, k))]]

C9_Witness ==
  /\ ~tui
  /\ queue # << >>
  /\ Len(out) = 8
  /\ out[1].style = "Magenta"
  /\ out[2].style = "None"
  /\ out[6].style = "Blue"
  /\ out[8].style = "Magenta"

\* C10: in tui_reveal shown stays within 0..total_characters, never decreases
\* from one iteration to the next, and equals total_characters whenever the
\* clock reading it was computed from is at least 8 ms per character.
C10_ShownBoundedMonotone ==
  /\ [](tui => /\ shown \in 0..Len(text)
               /\ elapsed >= Len(text) * 8 => shown = Len(text)
               /\ pc \in {"tui_poll", "tui_hold", "tui_finish"} =>
                    frame = SubSeq(text, 1, shown))
  /\ [][(tui /\ pc' \in {"tui_frame", "tui_poll", "tui_hold", "tui_finish"}) =>
          (shown' >= shown /\ elapsed' >= elapsed)]_vars

C10_Witness ==
  /\ tui
  /\ pc = "tui_hold"
  /\ text = <<"A", "B", NL, "C", "D">>
  /\ elapsed = 40
  /\ shown = 5

\* ------------------------------------------------------------------- C11
IsBlank(s) == \A i \in DOMAIN s : s[i] \in {" ", "\t"}
TerminalTouched == cmds # << >> \/ gstate # "none" \/ term # FreshTerm

\* C11: a run whose name argument is empty or only whitespace ends with a
\* validation or lookup error and the terminal untouched; and whenever the
\* terminal has been touched (a command issued, a guard made, the device
\* changed) the lookup has succeeded: the text in hand is the body of a bundled
\* file whose stem is the trimmed name up to letter case.
C11_NoTerminalBeforeLookup ==
  /\ (IsBlank(arg) /\ pc # "main") =>
       /\ pc = "done"
       /\ result = "Err"
       /\ errAt \in {"args", "lookup"}
       /\ ~TerminalTouched
  /\ errAt \in {"args", "lookup"} => ~TerminalTouched
  /\ TerminalTouched =>
       \E i \in DOMAIN assets :
         /\ to_lowercase(file_stem(assets[i].path)) = to_lowercase(trim(arg))
         /\ text = assets[i].body

C11_Witness ==
  /\ pc = "done"
  /\ arg # << >>
  /\ IsBlank(arg)
  /\ result = "Err"
  /\ ~TerminalTouched

\* ------------------------------------------------------------------- C12
\* C12: for every table and every name read_poem finds, read_poem of the name
\* in upper case and in lower case succeed too and all three return the same
\* body.
C12_LookupCaseInsensitive ==
  (pc = "l_done" /\ ret.given.ok) =>
    /\ ret.upper.ok
    /\ ret.lower.ok
    /\ ret.upper.body = ret.given.body
    /\ ret.lower.body = ret.given.body

\* ------------------------------------------------------------------- C13
\* C13: parse_speed returns Ok(n) for the numeral of every integer n with
\* 1 <= n <= 1000 (a leading + or leading zeros do not change n), and an error
\* for the numeral of every other integer and for every input that is not a
\* number; no value outside 1..1000 is ever returned.
C13_SpeedRange ==
  pc = "s_done" =>
    /\ \A n \in 0..MaxSpeedArg :
         speedArg \in {Decimal(n), <<"+">> \o Decimal(n), <<"0">> \o Decimal(n)} =>
           IF 1 <= n /\ n <= 1000
           THEN ret.ok /\ ret.val = n
           ELSE ~ret.ok /\ ret.err # "none"
    /\ speedArg \in NonNumbers => ~ret.ok /\ ret.err # "none"
    /\ ret.ok => ret.val \in 1..1000

C13_Witness ==
  /\ pc = "s_done"
  /\ speedArg = <<"1", "0", "0", "0">>
  /\ ret.ok
  /\ ret.val = 1000

\* ------------------------------------------------------------------- C14
\* C14: in tui_reveal a poll leaves the loop for the teardown only by reading a
\* dismiss key, and for the error exit only with an I/O error; a poll that reads
\* any other event (a resize, another key) or finds none goes on, at once or by
\* the second poll of the iteration, to the top of the loop, where the only
\* step other than an error is drawing the next frame.
C14_OnlyDismissEndsTuiLoop ==
  [][ /\ (pc \in {"tui_poll", "tui_hold"} /\ pc' # pc) =>
           /\ pc' \in {"tui_finish", "unwind", "tui_frame", "tui_hold"}
           /\ pc' = "tui_finish" =>
                /\ queue # << >>
                /\ IsDismissSignal(Head(queue))
                /\ queue' = Tail(queue)
           /\ pc' = "unwind" => result' = "Err" /\ errAt' \in {"reveal", "hold"}
           /\ (queue # << >> /\ ~IsDismissSignal(Head(queue)) /\ queue' = Tail(queue))
                => pc' \in {"tui_frame", "tui_hold"}
           /\ (pc = "tui_hold" /\ pc' # "tui_finish" /\ pc' # "unwind")
                => pc' = "tui_frame"
      /\ (pc = "tui_frame" /\ pc' # pc) =>
           \/ pc' = "tui_poll" /\ frame' = Take(text, shown')
           \/ pc' = "unwind" /\ result' = "Err" /\ errAt' = "reveal"
    ]_vars

\* A frame was drawn with a dismiss key already delivered, the polls after it
\* read what was ahead of that key, and the loop is at its top again.
C14_Witness ==
  /\ tui
  /\ pc = "tui_frame"
  /\ lag >= 1
  /\ queue # << >>
  /\ IsDismissSignal(Head(queue))

\* ------------------------------------------------------------------- C15
CmdNames(log) == [i \in DOMAIN log |-> log[i].cmd]
AllOk(log) == \A i \in DOMAIN log : log[i].ok
Acquired ==
  /\ gstate = "live"
  /\ guard = [raw_mode |-> TRUE, alt_screen |-> TRUE, cursor_hidden |-> TRUE]
  /\ term = [alt |-> TRUE, raw |-> TRUE, cursor_hidden |-> TRUE]

\* C15: a step that emits a character (typewriter_print) or draws a frame
\* (tui_reveal) is taken with the guard acquired and the cursor hidden, all
\* commands so far having succeeded: in typewriter_print exactly the three of
\* enter and then the clear, in tui_reveal the three of enter and the
\* Terminal's own hide, never a clear; no release has been issued yet. A run
\* whose enter or clear fails returns that error from a state in which nothing
\* was emitted or drawn, without entering the loop.
C15_AcquireClearRevealTeardown ==
  [][ /\ (idx' = idx + 1 \/ (pc = "tui_frame" /\ pc' = "tui_poll")) =>
           /\ Acquired
           /\ AllOk(cmds)
           /\ CmdNames(cmds) = IF tui
                               THEN <<"EnterAlt", "EnableRaw", "Hide", "TuiHide">>
                               ELSE <<"EnterAlt", "EnableRaw", "Hide", "Clear">>
           /\ teardowns = << >>
      /\ (errAt = "none" /\ errAt' \in {"enter", "clear"}) =>
           /\ pc \in {"tw_enter", "tui_enter", "tw_clear"}
           /\ pc' \in {"done", "unwind"}
           /\ result' = "Err"
           /\ idx = 0
           /\ out = << >>
           /\ frame = << >>
           /\ elapsed = 0
           /\ ~cmds'[Len(cmds')].ok
           /\ errAt' = "clear" <=> cmds'[Len(cmds')].cmd = "Clear"
      /\ (pc \in {"done", "unwind"} /\ errAt \in {"enter", "clear"}) =>
           UNCHANGED << idx, out, frame, elapsed, errAt, result >>
    ]_vars

\* The first character of a typewriter run is out, after enter and clear.
C15_Witness ==
  /\ ~tui
  /\ pc = "tw_poll"
  /\ idx = 1
  /\ Acquired
  /\ CmdNames(cmds) = <<"EnterAlt", "EnableRaw", "Hide", "Clear">>

C17_CancelWithinOneStep == lag <= 1

\* ------------------------------------------------------------------- C18
Running == pc \notin {"main", "unwind", "done"}
ReadsDismiss ==
  /\ queue # << >>
  /\ IsDismissSignal(Head(queue))
  /\ queue' = Tail(queue)

\* C18: once a dismiss key has been delivered, whatever events are ahead of it,
\* the run ends, and it ends Ok with the terminal restored unless a terminal
\* operation failed. The key is never lost: a step that reads it sets
\* exit_requested or goes to the teardown at once. And the run reaches its
\* teardown in no other way: exit_requested becomes true, and the teardown is
\* entered, only by reading a dismiss key; every other way out is an error.
C18_DismissEndsRunNothingElseDoes ==
  /\ DismissPending ~>
       (pc = "done" /\ (errAt = "none" => result = "Ok" /\ TerminalRestored))
  /\ [][ /\ (Running /\ ReadsDismiss) =>
              \/ exit_requested'
              \/ pc' \in {"tw_finish", "tui_finish"}
         /\ (exit_requested' /\ ~exit_requested) => ReadsDismiss
         /\ (Running /\ pc' \in {"tw_finish", "tui_finish"} /\ pc' # pc) =>
              exit_requested \/ ReadsDismiss
         /\ (Running /\ pc \notin {"tw_finish", "tui_finish"} /\ ~Running') =>
              errAt' # "none"
       ]_vars

\* A run that read its dismiss key has ended Ok with the terminal restored.
C18_Witness ==
  /\ pc = "done"
  /\ ending \in {"completed", "cancelled"}
  /\ result = "Ok"
  /\ TerminalRestored
  /\ cmds # << >>

\* ------------------------------------------------------------------- C19
IsPrefix(a, b) == Len(a) <= Len(b) /\ \A i \in DOMAIN a : a[i] = b[i]
DrawsFrame == pc = "tui_frame" /\ pc' = "tui_poll"
FrameIsFirstShown ==
  /\ Len(frame') = shown'
  /\ IsPrefix(frame', text)
  /\ IsPrefix(frame, frame')

\* C19: every iteration of tui_reveal draws one frame, the first shown
\* characters of the text, and then makes exactly one poll, which reads at most
\* one event: the short poll while shown < total_chars, the long poll once shown
\* has reached total_chars; after that poll the iteration is over.
C19_OneFrameOnePoll ==
  [][ /\ DrawsFrame => FrameIsFirstShown /\ queue' = queue
      /\ (pc = "tui_poll" /\ pc' # pc) =>
           /\ shown < Len(text)
           /\ pc' \in {"tui_frame", "tui_finish", "unwind"}
      /\ (pc = "tui_hold" /\ pc' # pc) =>
           /\ shown = Len(text)
           /\ pc' \in {"tui_frame", "tui_finish", "unwind"}
    ]_vars

\* C19 as the code has it: every iteration draws one frame, the first shown
\* characters of the text and an extension of the frame before it, and then
\* makes the 16 ms poll whatever shown is; when that poll has not ended the loop
\* and shown has reached total_chars the same iteration makes the 100 ms poll
\* as well. Each poll reads at most one event, an iteration at most two, and
\* the iterations of the hold phase redraw the whole text.
C19_OneFrameOneOrTwoPolls ==
  [][ /\ DrawsFrame => FrameIsFirstShown /\ queue' = queue
      /\ (pc = "tui_frame" /\ pc' # pc) => pc' \in {"tui_poll", "unwind"}
      /\ (pc \in {"tui_poll", "tui_hold"} /\ pc' # pc) =>
           /\ queue' = queue \/ (queue # << >> /\ queue' = Tail(queue))
           /\ UNCHANGED << frame, shown, elapsed >> \/ pc' = "unwind"
      /\ (pc = "tui_poll" /\ pc' \notin {pc, "tui_finish", "unwind"}) =>
           pc' = IF shown >= Len(text) THEN "tui_hold" ELSE "tui_frame"
      /\ (pc = "tui_hold" /\ pc' # pc) =>
           /\ shown = Len(text)
           /\ frame = text
           /\ pc' \in {"tui_frame", "tui_finish", "unwind"}
    ]_vars

\* The whole text is drawn, the 16 ms poll of this iteration is done and the
\* 100 ms poll is about to read a further event.
C19_Witness ==
  /\ tui
  /\ pc = "tui_hold"
  /\ Len(text) >= 2
  /\ frame = text
  /\ queue # << >>

\* ------------------------------------------------------------------- C20
FlagOf(g, cmd) ==
  CASE cmd = "Show" -> g.cursor_hidden
    [] cmd = "DisableRaw" -> g.raw_mode
    [] cmd = "LeaveAlt" -> g.alt_screen
StillHeld(g) == {c \in Releases : FlagOf(g, c)}
NewCmds == SubSeq(cmds', Len(cmds) + 1, Len(cmds'))

\* C20: in every call on a live guard a flag goes from true to false only if
\* the call issued that flag's release and it succeeded, and a release that
\* failed leaves its flag true; a finish() that returns an error stopped at the
\* release that failed and left that flag and the flags of the later releases
\* as they were; and dropping the guard issues the release of every flag still
\* true, each once, whichever of them fail.
C20_FailedReleaseRetried ==
  [][ (pc = "g_live" /\ (calls' # calls \/ pc' = "g_done")) =>
        /\ \A c \in Releases :
             (FlagOf(guard, c) /\ ~FlagOf(guard', c)) =>
               \E i \in DOMAIN NewCmds : NewCmds[i].cmd = c /\ NewCmds[i].ok
        /\ \A i \in DOMAIN NewCmds :
             (NewCmds[i].cmd \in Releases /\ ~NewCmds[i].ok) =>
               FlagOf(guard', NewCmds[i].cmd)
        /\ (lastCall'.op = "finish" /\ ~lastCall'.ok) =>
             /\ NewCmds # << >>
             /\ ~NewCmds[Len(NewCmds)].ok
             /\ \A c \in Releases :
                  Rank(c) >= Rank(NewCmds[Len(NewCmds)].cmd) =>
                    FlagOf(guard', c) = FlagOf(guard, c)
        /\ lastCall'.op = "drop" =>
             /\ {NewCmds[i].cmd : i \in DOMAIN NewCmds} = StillHeld(guard)
             /\ Len(NewCmds) = Cardinality(StillHeld(guard))
    ]_vars

\* finish() failed at its first release; the drop after it tried that release
\* again, failed again, and went on to the other two.
C20_Witness ==
  /\ pc = "g_done"
  /\ Len(teardowns) >= 2
  /\ LET d == teardowns[Len(teardowns)]
         f == teardowns[Len(teardowns) - 1]
     IN  /\ f.by = "finish"
         /\ d.by = "drop"
         /\ f.to = f.from
         /\ ~cmds[f.to].ok
         /\ d.to = d.from + 2
         /\ cmds[d.from].cmd = cmds[f.to].cmd
         /\ ~cmds[d.from].ok
         /\ cmds[d.to].ok
         /\ guard = [raw_mode |-> FALSE, alt_screen |-> FALSE, cursor_hidden |-> TRUE]

====
